---------------------------- MODULE Spec2Model ----------------------------
(***************************************************************************)
(* A model of the port scanner's backend (src/backend.py): the task        *)
(* registry (scan_tasks guarded by tasks_lock), the background scan worker *)
(* (scan_network_thread) with its thread pool, the retention sweep         *)
(* (cleanup_old_tasks) and the proxy quality prober (test_proxy_quality).  *)
(*                                                                         *)
(* Every statement of a thread that reads or writes a field another thread *)
(* can see is a step of its own; a handler body that runs under tasks_lock *)
(* is one step.  Addresses are the last octet of 10.0.0.x.                 *)
(***************************************************************************)
EXTENDS Integers, Sequences, FiniteSets, TLC

(***************************************************************************)
(* Bounds of the model.                                                    *)
(***************************************************************************)
\* task identities ever issued (uuid4 values are never reused)
MaxTasks == 1
\* the clock advances in jumps of TickStep seconds up to MaxNow
TickStep == 3600
MaxNow == 7200
\* scan threads of scanner_web ever started
MaxWebThreads == 2

(***************************************************************************)
(* Program constants.                                                      *)
(***************************************************************************)
\* age > 3600 in cleanup_old_tasks
RetentionWindow == 3600
\* 1 <= port <= 65535 in start_scan
MinPort == 1
MaxPort == 65535
\* bits of an IPv4 address, ipaddress.ip_network
IPv4Length == 32

\* Python's None in a field that otherwise holds a string
None == "None"
\* Python's None in a field that otherwise holds a number
NoNumber == -1
\* Python's None in a field that otherwise holds a report
NoReport == << >>

TaskIds == 1..MaxTasks

(***************************************************************************)
(* ipaddress.ip_network(network, strict=False) on "10.0.0.<addr>/<prefix>".*)
(* A specification is valid when the prefix is in 0..32 and the address    *)
(* parses; strict=False masks the host bits instead of rejecting them.     *)
(***************************************************************************)
RECURSIVE Pow2(_)
Pow2(n) == IF n = 0 THEN 1 ELSE 2 * Pow2(n - 1)

ValidNetwork(network) ==
    /\ network.wellformed
    /\ network.prefix \in 0..IPv4Length

\* network_obj.num_addresses
num_addresses(network) == Pow2(IPv4Length - network.prefix)

\* network_obj.network_address (last octet)
network_address(network) ==
    network.addr - (network.addr % num_addresses(network))

\* network_obj.broadcast_address (last octet)
broadcast_address(network) ==
    network_address(network) + num_addresses(network) - 1

\* list(network_obj.hosts()): for a /32 the single address, for a /31 both
\* addresses, otherwise every address but the network and broadcast address
hosts(network) ==
    LET lo == network_address(network)
        hi == broadcast_address(network)
    IN  IF network.prefix = IPv4Length THEN << lo >>
        ELSE IF network.prefix = IPv4Length - 1 THEN << lo, hi >>
        ELSE [i \in 1..(hi - lo - 1) |-> lo + i]


(***************************************************************************)
(* Sequence helpers.                                                       *)
(***************************************************************************)
\* x in seq
Contains(seq, x) == \E i \in 1..Len(seq) : seq[i] = x

(***************************************************************************)
(* test_ai_model_availability: the four named endpoints, each requested    *)
(* once through the working proxy.  An outcome is what requests.get did:   *)
(* kind "response" with a status, whether the body holds one of the        *)
(* blocked_keywords (blocked) or the endpoint's check_text (has_text), and *)
(* the elapsed microseconds; or the kind of exception it raised.           *)
(***************************************************************************)
ai_endpoints == << "chatgpt", "claude", "gemini", "copilot" >>

\* round(elapsed * 1000, 2): milliseconds to two decimals, held as
\* hundredths of a millisecond; elapsed is in microseconds
RoundMs(elapsed) == (elapsed + 5) \div 10

\* n milliseconds in hundredths of a millisecond
Ms(n) == n * 100

\* f'http_{response.status_code}'
HttpCategory(status_code) ==
    CASE status_code = 204 -> "http_204"
      [] status_code = 404 -> "http_404"
      [] status_code = 500 -> "http_500"
      [] OTHER -> "http_other"

\* lines 108-163 without the "or status 200" of line 145
ai_check_text_only(out) ==
    LET unknown == [available |-> FALSE, status |-> "unknown",
                    response_time |-> NoNumber]
    IN  IF out.kind = "Timeout" THEN [unknown EXCEPT !.status = "timeout"]
        ELSE IF out.kind = "ConnectionError" THEN [unknown EXCEPT !.status = "connection_error"]
        ELSE IF out.kind # "response" THEN [unknown EXCEPT !.status = "error"]
        ELSE IF out.status \in {200, 301, 302} THEN
            IF out.blocked THEN [unknown EXCEPT !.status = "blocked"]
            ELSE IF out.has_text THEN
                [available |-> TRUE, status |-> "available",
                 response_time |-> RoundMs(out.elapsed)]
            ELSE [unknown EXCEPT !.status = "uncertain"]
        ELSE IF out.status = 403 THEN [unknown EXCEPT !.status = "blocked"]
        ELSE [unknown EXCEPT !.status = HttpCategory(out.status)]

\* lines 108-163 with the latency of line 148 recorded for every response
ai_check_always_timed(out) ==
    LET unknown == [available |-> FALSE, status |-> "unknown",
                    response_time |-> NoNumber]
        timed == [unknown EXCEPT !.response_time = RoundMs(out.elapsed)]
    IN  IF out.kind = "Timeout" THEN [unknown EXCEPT !.status = "timeout"]
        ELSE IF out.kind = "ConnectionError" THEN [unknown EXCEPT !.status = "connection_error"]
        ELSE IF out.kind # "response" THEN [unknown EXCEPT !.status = "error"]
        ELSE IF out.status \in {200, 301, 302} THEN
            IF out.blocked THEN [timed EXCEPT !.status = "blocked"]
            ELSE IF out.has_text \/ out.status = 200 THEN
                [available |-> TRUE, status |-> "available",
                 response_time |-> RoundMs(out.elapsed)]
            ELSE [timed EXCEPT !.status = "uncertain"]
        ELSE IF out.status = 403 THEN [timed EXCEPT !.status = "blocked"]
        ELSE [timed EXCEPT !.status = HttpCategory(out.status)]

\* one pass of the loop body, lines 108-163
ai_check(out) ==
    LET unknown == [available |-> FALSE, status |-> "unknown",
                    response_time |-> NoNumber]
    IN  IF out.kind = "Timeout" THEN [unknown EXCEPT !.status = "timeout"]
        ELSE IF out.kind = "ConnectionError" THEN [unknown EXCEPT !.status = "connection_error"]
        ELSE IF out.kind # "response" THEN [unknown EXCEPT !.status = "error"]
        ELSE IF out.status \in {200, 301, 302} THEN
            IF out.blocked THEN [unknown EXCEPT !.status = "blocked"]
            ELSE IF out.has_text \/ out.status = 200 THEN
                [available |-> TRUE, status |-> "available",
                 response_time |-> RoundMs(out.elapsed)]
            ELSE [unknown EXCEPT !.status = "uncertain"]
        ELSE IF out.status = 403 THEN [unknown EXCEPT !.status = "blocked"]
        ELSE [unknown EXCEPT !.status = HttpCategory(out.status)]

\* outs[i] is the outcome of the request to ai_endpoints[i]
test_ai_model_availability(outs) ==
    [i \in 1..Len(ai_endpoints) |-> ai_check(outs[i])]

(***************************************************************************)
(* The quality score and band, test_proxy_quality lines 301-355.           *)
(***************************************************************************)
\* lines 306-312
SiteBonus(accessible_count) ==
    IF accessible_count >= 3 THEN 30
    ELSE IF accessible_count >= 2 THEN 25
    ELSE IF accessible_count >= 1 THEN 20
    ELSE 0

\* lines 315-327 with every < read as <=
LatencyBonus_inclusive(response_time) ==
    IF response_time = NoNumber THEN 0
    ELSE IF response_time <= Ms(300) THEN 30
    ELSE IF response_time <= Ms(600) THEN 25
    ELSE IF response_time <= Ms(1000) THEN 20
    ELSE IF response_time <= Ms(2000) THEN 15
    ELSE IF response_time <= Ms(3000) THEN 10
    ELSE IF response_time <= Ms(5000) THEN 5
    ELSE 0

\* lines 315-327; response_time in hundredths of a millisecond, or NoNumber
LatencyBonus(response_time) ==
    IF response_time = NoNumber THEN 0
    ELSE IF response_time < Ms(300) THEN 30
    ELSE IF response_time < Ms(600) THEN 25
    ELSE IF response_time < Ms(1000) THEN 20
    ELSE IF response_time < Ms(2000) THEN 15
    ELSE IF response_time < Ms(3000) THEN 10
    ELSE IF response_time < Ms(5000) THEN 5
    ELSE 0

\* lines 330-339; ai_models is NoReport or the endpoint report
AiBonus(ai_models) ==
    IF ai_models = NoReport THEN 0
    ELSE LET available_models_count ==
                 Cardinality({i \in DOMAIN ai_models : ai_models[i].available})
         IN  IF available_models_count >= 4 THEN 10
             ELSE IF available_models_count >= 3 THEN 8
             ELSE IF available_models_count >= 2 THEN 6
             ELSE IF available_models_count >= 1 THEN 4
             ELSE 0

\* lines 344-353 with every >= read as >
QualityLevel_exclusive(score) ==
    IF score > 85 THEN "excellent"
    ELSE IF score > 70 THEN "good"
    ELSE IF score > 55 THEN "fair"
    ELSE IF score > 40 THEN "poor"
    ELSE "bad"

\* lines 344-353
QualityLevel(score) ==
    IF score >= 85 THEN "excellent"
    ELSE IF score >= 70 THEN "good"
    ELSE IF score >= 55 THEN "fair"
    ELSE IF score >= 40 THEN "poor"
    ELSE "bad"

\* lines 302-355 without the base score of line 303
ScoreQuality_no_base(info) ==
    IF info.is_working THEN
        LET score == SiteBonus(Len(info.accessible_sites))
                     + LatencyBonus(info.response_time)
                     + AiBonus(info.ai_models)
        IN  [info EXCEPT !.quality_score = score,
                         !.quality_level = QualityLevel(score)]
    ELSE [info EXCEPT !.quality_level = "unavailable"]

\* lines 302-355: proxy_info with quality_score and quality_level filled in
ScoreQuality(info) ==
    IF info.is_working THEN
        LET score == 30 + SiteBonus(Len(info.accessible_sites))
                        + LatencyBonus(info.response_time)
                        + AiBonus(info.ai_models)
        IN  [info EXCEPT !.quality_score = score,
                         !.quality_level = QualityLevel(score)]
    ELSE [info EXCEPT !.quality_level = "unavailable"]

(***************************************************************************)
(* test_proxy_quality, lines 168-289: the reference-site probes.           *)
(* An outcome of one requests.get is kind "response" with a status, the    *)
(* elapsed microseconds and whether the body parses as JSON (json), or the *)
(* kind of exception raised, in the order the except clauses test them.    *)
(***************************************************************************)
\* lines 191-206; the proxies mapping is fixed by the type
proxy_configs == << [type |-> "http"], [type |-> "socks5"] >>

\* lines 209-213
test_sites ==
    << [name |-> "IP Check", key |-> "ip_check", priority |-> 1],
       [name |-> "Google", key |-> "can_access_google", priority |-> 2],
       [name |-> "YouTube", key |-> "can_access_youtube", priority |-> 3] >>

\* sorted(test_sites, key=lambda x: x['priority']): a stable insertion sort
RECURSIVE InsertByPriority(_, _)
InsertByPriority(sorted, x) ==
    IF sorted = << >> THEN << x >>
    ELSE IF Head(sorted).priority <= x.priority
         THEN << Head(sorted) >> \o InsertByPriority(Tail(sorted), x)
         ELSE << x >> \o sorted

RECURSIVE SortByPriority(_)
SortByPriority(seq) ==
    IF seq = << >> THEN << >>
    ELSE InsertByPriority(SortByPriority(SubSeq(seq, 1, Len(seq) - 1)), seq[Len(seq)])

sorted_sites == SortByPriority(test_sites)

\* lines 173-188
InitialProxyInfo ==
    [response_time |-> NoNumber, is_working |-> FALSE, http_code |-> NoNumber,
     can_access_google |-> FALSE, accessible_sites |-> << >>,
     quality_score |-> 0, quality_level |-> "unknown", error |-> None,
     proxy_type |-> "unknown", exit_ip |-> None, exit_country |-> None,
     ai_models |-> NoReport]

\* lines 173-217: the report and the locals before the first probe
InitialProber ==
    [proxy_info |-> InitialProxyInfo, best_time |-> NoNumber,
     successful_config |-> None, working_proxies |-> None]

\* line 240 with 404 also taken as a success
SuccessCodes_with_404 == {200, 204, 301, 302, 403, 404}

\* the status codes that prove a round trip through the proxy, line 240
SuccessCodes == {200, 204, 301, 302, 403}

\* lines 276-285: the message each except clause records
ErrorMessage(kind) ==
    CASE kind = "ProxyError" -> "Proxy connection failed"
      [] kind = "Timeout" -> "Request timeout"
      [] kind = "SSLError" -> "SSL error"
      [] kind = "ConnectionError" -> "Connection error"
      [] OTHER -> "str(e)"

\* line 264 without the exclusion of the geolocation service
CountsAsAccessible_any(info, site) ==
    ~Contains(info.accessible_sites, site.name)

\* line 264: a site reached is tallied once, the geolocation service never
CountsAsAccessible(info, site) ==
    /\ ~Contains(info.accessible_sites, site.name)
    /\ site.name # "IP Check"

\* line 272 with the comparison dropped: the last success sets the latency
IsFaster_always(best_time, elapsed) == TRUE

\* line 272
IsFaster(best_time, elapsed) == best_time = NoNumber \/ elapsed < best_time

\* line 250 without the test of the status
GeoParsed_any_status(site, out) == site.key = "ip_check" /\ out.json

\* lines 250-261: the geolocation fields are read from a 200 response of
\* the geolocation service whose body parses
GeoParsed(site, out) == site.key = "ip_check" /\ out.status = 200 /\ out.json

\* lines 225-285: one pass of the inner loop, for config and site, where
\* requests.get ended as out
ProbeStep(st, config, site, out) ==
    IF out.kind # "response" THEN
        [st EXCEPT !.proxy_info.error = ErrorMessage(out.kind)]
    ELSE IF out.status \notin SuccessCodes THEN st
    ELSE
        LET info == st.proxy_info
            geo == GeoParsed(site, out)
            tally == CountsAsAccessible(info, site)
            faster == IsFaster(st.best_time, out.elapsed)
        IN  [proxy_info |->
                [info EXCEPT
                    !.is_working = TRUE,
                    !.http_code = out.status,
                    !.proxy_type = config.type,
                    !.exit_ip = IF geo THEN "ip" ELSE @,
                    !.exit_country = IF geo THEN "country_name" ELSE @,
                    !.accessible_sites = IF tally THEN Append(@, site.name) ELSE @,
                    !.can_access_google =
                        IF site.key = "can_access_google" THEN TRUE ELSE @,
                    !.response_time = IF faster THEN RoundMs(out.elapsed) ELSE @],
             best_time |-> IF faster THEN out.elapsed ELSE st.best_time,
             successful_config |->
                IF st.successful_config = None THEN config.type
                ELSE st.successful_config,
             working_proxies |-> config.type]

\* the inner loop of lines 224-285 from site index i on; outs[i] is the
\* outcome of the probe of sorted_sites[i]
RECURSIVE ProbeSites(_, _, _, _)
ProbeSites(st, config, outs, i) ==
    IF i > Len(sorted_sites) THEN st
    ELSE ProbeSites(ProbeStep(st, config, sorted_sites[i], outs[i]), config, outs, i + 1)

\* the outer loop of lines 220-289 from config index c on, with the break
\* of lines 288-289
RECURSIVE ProbeConfigs(_, _, _)
ProbeConfigs(st, outs, c) ==
    IF c > Len(proxy_configs) THEN st
    ELSE LET after == ProbeSites(st, proxy_configs[c], outs[c], 1)
         IN  IF after.proxy_info.is_working THEN after
             ELSE ProbeConfigs(after, outs, c + 1)

\* lines 292-294: the endpoint check, run only for a working proxy
WithAiModels(st, ai_outs, check_ai_models) ==
    IF st.proxy_info.is_working /\ check_ai_models /\ st.working_proxies # None
    THEN [st.proxy_info EXCEPT !.ai_models = test_ai_model_availability(ai_outs)]
    ELSE st.proxy_info

\* test_proxy_quality(ip, port): outs[c][i] is the outcome of the probe of
\* site i under protocol c, ai_outs[i] that of the request to endpoint i
test_proxy_quality(outs, ai_outs, check_ai_models) ==
    ScoreQuality(WithAiModels(ProbeConfigs(InitialProber, outs, 1),
                              ai_outs, check_ai_models))

(***************************************************************************)
(* scan_port, lines 360-399.  connect is what the TCP connection attempt   *)
(* did: "open" (connect_ex returned 0), "closed" (any other code) or       *)
(* "raised" (an exception, swallowed by the except clause).  quality is    *)
(* the report of test_proxy_quality for this address.                      *)
(***************************************************************************)
\* the return value None
NoResult ==
    [status |-> "None", ip |-> NoNumber, port |-> NoNumber, timestamp |-> NoNumber,
     has_quality |-> FALSE, quality_score |-> NoNumber, quality_level |-> None,
     is_proxy_working |-> FALSE, proxy_type |-> None]

\* a call that ended by raising: future.result() raises it again
RaisedResult == [NoResult EXCEPT !.status = "raised"]

\* scan_port without the try/except of lines 362-398: the exception leaves
\* the call and is stored in the future
scan_port_unguarded(ip, port, check_quality, connect, quality, clock) ==
    IF connect = "raised" THEN RaisedResult
    ELSE IF connect # "open" THEN NoResult
    ELSE IF ~check_quality THEN
        [NoResult EXCEPT !.status = "open", !.ip = ip, !.port = port,
                         !.timestamp = clock]
    ELSE
        [status |-> "open", ip |-> ip, port |-> port, timestamp |-> clock,
         has_quality |-> TRUE, quality_score |-> quality.quality_score,
         quality_level |-> quality.quality_level,
         is_proxy_working |-> quality.is_working,
         proxy_type |-> quality.proxy_type]

scan_port(ip, port, check_quality, connect, quality, clock) ==
    IF connect # "open" THEN NoResult
    ELSE IF ~check_quality THEN
        [NoResult EXCEPT !.status = "open", !.ip = ip, !.port = port,
                         !.timestamp = clock]
    ELSE
        [status |-> "open", ip |-> ip, port |-> port, timestamp |-> clock,
         has_quality |-> TRUE, quality_score |-> quality.quality_score,
         quality_level |-> quality.quality_level,
         is_proxy_working |-> quality.is_working,
         proxy_type |-> quality.proxy_type]

\* x.get('quality_score', 0), line 441
SortKey(x) == IF x.has_quality THEN x.quality_score ELSE 0

\* a descending sort that puts an entry before the entries of equal score
RECURSIVE InsertByScore_unstable(_, _)
InsertByScore_unstable(sorted, x) ==
    IF sorted = << >> THEN << x >>
    ELSE IF SortKey(Head(sorted)) > SortKey(x)
         THEN << Head(sorted) >> \o InsertByScore_unstable(Tail(sorted), x)
         ELSE << x >> \o sorted

\* results.sort(key=..., reverse=True): stable, descending
RECURSIVE InsertByScore(_, _)
InsertByScore(sorted, x) ==
    IF sorted = << >> THEN << x >>
    ELSE IF SortKey(Head(sorted)) >= SortKey(x)
         THEN << Head(sorted) >> \o InsertByScore(Tail(sorted), x)
         ELSE << x >> \o sorted

RECURSIVE SortByScore(_)
SortByScore(seq) ==
    IF seq = << >> THEN << >>
    ELSE InsertByScore(SortByScore(SubSeq(seq, 1, Len(seq) - 1)), seq[Len(seq)])

(***************************************************************************)
(* State.                                                                  *)
(***************************************************************************)
VARIABLES
    scan_tasks,        \* the keys of the registry dict (each maps to task[id])
    tasks_lock,        \* "free", or the holder across steps: "cleanup"
    task,              \* the ScanTask objects ever constructed, by task_id
    pc,                \* by task_id, the line its scan_network_thread is at
    futures,           \* by task_id, the futures submitted to its executor
    now,               \* datetime.now(), in seconds
    tasks_to_remove,   \* the local of cleanup_old_tasks
    response,          \* the response the handler of this step returned
    prober_pc,         \* where one call of test_proxy_quality is at
    prober,            \* its proxy_info and locals
    sent,              \* the probes it has issued, in order
    checker,           \* one call of test_ai_model_availability: its
                       \* ai_availability and the requests it has issued
    scan_status,       \* scanner_web: the global scan status
    web_threads        \* scanner_web: the scan threads started, in order

registry_vars == << scan_tasks, tasks_lock, task, pc, futures, now, tasks_to_remove, response >>
prober_vars == << prober_pc, prober, sent, checker >>
web_vars == << scan_status, web_threads >>
vars == << scan_tasks, tasks_lock, task, pc, futures, now, tasks_to_remove,
           response, prober_pc, prober, sent, checker, scan_status, web_threads >>

NoResponse == [op |-> "none", task_id |-> 0, code |-> 0]

\* scanner_web lines 21-29
InitialScanStatus ==
    [is_scanning |-> FALSE, progress |-> 0, total |-> 0, scanned |-> 0,
     results |-> << >>, start_time |-> NoNumber, end_time |-> NoNumber]

\* test_ai_model_availability has not been called
NoChecker == [ai_availability |-> NoReport, requests |-> << >>]

\* ScanTask.__init__, lines 31-45
ScanTask(task_id, network, port, threads, check_proxy_quality, clock) ==
    [task_id |-> task_id, network |-> network, port |-> port,
     threads |-> threads, check_proxy_quality |-> check_proxy_quality,
     is_scanning |-> FALSE, progress |-> 0, total |-> 0, scanned |-> 0,
     results |-> << >>, start_time |-> NoNumber, end_time |-> NoNumber,
     error |-> None, created_at |-> clock]

\* ScanTask.to_dict, lines 47-64
to_dict(t) == t

\* the task ids issued so far
Issued == DOMAIN task

\* The state of a task, read off its fields: pending until line 409 sets
\* is_scanning, running while is_scanning, terminal once line 436 has
\* cleared it; failed when line 433 recorded an error, else completed.
Pending(t) == ~t.is_scanning /\ t.start_time = NoNumber
Running(t) == t.is_scanning
Terminal(t) == ~t.is_scanning /\ t.start_time # NoNumber
Failed(t) == Terminal(t) /\ t.error # None
Completed(t) == Terminal(t) /\ t.error = None
TaskState(t) ==
    IF Running(t) THEN "running"
    ELSE IF Pending(t) THEN "pending"
    ELSE IF Failed(t) THEN "failed"
    ELSE "completed"

Init ==
    /\ scan_tasks = {}
    /\ tasks_lock = "free"
    /\ task = << >>
    /\ pc = << >>
    /\ futures = << >>
    /\ now = 0
    /\ tasks_to_remove = {}
    /\ response = NoResponse
    /\ prober_pc = [at |-> "idle", config |-> 0, site |-> 0]
    /\ prober = InitialProber
    /\ sent = << >>
    /\ checker = NoChecker
    /\ scan_status = InitialScanStatus
    /\ web_threads = << >>

(***************************************************************************)
(* The request handlers.  Each body under "with tasks_lock" is one step.   *)
(***************************************************************************)
\* start_scan without the port check of lines 491-495
start_scan_any_port(network, port, threads, check_proxy_quality) ==
    IF ~ValidNetwork(network) THEN
        /\ response' = [op |-> "start_scan", task_id |-> 0, code |-> 400]
        /\ UNCHANGED << scan_tasks, tasks_lock, task, pc, futures, now, tasks_to_remove >>
        /\ UNCHANGED << prober_vars, web_vars >>
    ELSE
        /\ tasks_lock = "free"
        /\ Len(task) < MaxTasks
        /\ LET task_id == Len(task) + 1
               new == ScanTask(task_id, network, port, threads,
                               check_proxy_quality, now)
           IN  /\ task' = Append(task, new)
               /\ scan_tasks' = scan_tasks \cup {task_id}
               /\ pc' = Append(pc, "L404")
               /\ futures' = Append(futures, << >>)
               /\ response' = [op |-> "start_scan", task_id |-> task_id,
                               code |-> 200, data |-> to_dict(new)]
        /\ UNCHANGED << tasks_lock, now, tasks_to_remove >>
        /\ UNCHANGED << prober_vars, web_vars >>

\* start_scan, lines 469-525
start_scan(network, port, threads, check_proxy_quality) ==
    IF ~ValidNetwork(network) \/ ~(MinPort <= port /\ port <= MaxPort) THEN
        \* ValueError of ip_network (line 488), or the port check (491-495)
        /\ response' = [op |-> "start_scan", task_id |-> 0, code |-> 400]
        /\ UNCHANGED << scan_tasks, tasks_lock, task, pc, futures, now, tasks_to_remove >>
        /\ UNCHANGED << prober_vars, web_vars >>
    ELSE
        /\ tasks_lock = "free"
        /\ Len(task) < MaxTasks
        /\ LET task_id == Len(task) + 1
               new == ScanTask(task_id, network, port, threads,
                               check_proxy_quality, now)
           IN  /\ task' = Append(task, new)
               /\ scan_tasks' = scan_tasks \cup {task_id}
               /\ pc' = Append(pc, "L404")
               /\ futures' = Append(futures, << >>)
               /\ response' = [op |-> "start_scan", task_id |-> task_id,
                               code |-> 200, data |-> to_dict(new)]
        /\ UNCHANGED << tasks_lock, now, tasks_to_remove >>
        /\ UNCHANGED << prober_vars, web_vars >>

\* get_task_status, lines 529-543
get_task_status(task_id) ==
    /\ tasks_lock = "free"
    /\ response' =
          IF task_id \notin scan_tasks
          THEN [op |-> "get_task_status", task_id |-> task_id, code |-> 404]
          ELSE [op |-> "get_task_status", task_id |-> task_id, code |-> 200,
                data |-> to_dict(task[task_id])]
    /\ UNCHANGED << scan_tasks, tasks_lock, task, pc, futures, now, tasks_to_remove >>
    /\ UNCHANGED << prober_vars, web_vars >>

\* the registry's values in insertion order: task ids are issued in order
RECURSIVE RegistryValues(_)
RegistryValues(n) ==
    IF n = 0 THEN << >>
    ELSE RegistryValues(n - 1) \o
         (IF n \in scan_tasks THEN << to_dict(task[n]) >> ELSE << >>)

\* get_all_tasks, lines 547-556
get_all_tasks ==
    /\ tasks_lock = "free"
    /\ LET tasks_list == RegistryValues(Len(task))
       IN  response' = [op |-> "get_all_tasks", task_id |-> 0, code |-> 200,
                        total |-> Len(tasks_list), data |-> tasks_list]
    /\ UNCHANGED << scan_tasks, tasks_lock, task, pc, futures, now, tasks_to_remove >>
    /\ UNCHANGED << prober_vars, web_vars >>

\* get_task_results, lines 560-580
get_task_results(task_id) ==
    /\ tasks_lock = "free"
    /\ response' =
          IF task_id \notin scan_tasks
          THEN [op |-> "get_task_results", task_id |-> task_id, code |-> 404]
          ELSE [op |-> "get_task_results", task_id |-> task_id, code |-> 200,
                results |-> task[task_id].results,
                total |-> Len(task[task_id].results),
                is_scanning |-> task[task_id].is_scanning]
    /\ UNCHANGED << scan_tasks, tasks_lock, task, pc, futures, now, tasks_to_remove >>
    /\ UNCHANGED << prober_vars, web_vars >>

\* delete_task without the is_scanning check of lines 595-599
delete_task_unchecked(task_id) ==
    /\ tasks_lock = "free"
    /\ IF task_id \notin scan_tasks THEN
          /\ response' = [op |-> "delete_task", task_id |-> task_id, code |-> 404]
          /\ UNCHANGED scan_tasks
       ELSE
          /\ scan_tasks' = scan_tasks \ {task_id}
          /\ response' = [op |-> "delete_task", task_id |-> task_id, code |-> 200]
    /\ UNCHANGED << tasks_lock, task, pc, futures, now, tasks_to_remove >>
    /\ UNCHANGED << prober_vars, web_vars >>

\* delete_task, lines 584-606; the Conflict outcome is status 400
delete_task(task_id) ==
    /\ tasks_lock = "free"
    /\ IF task_id \notin scan_tasks THEN
          /\ response' = [op |-> "delete_task", task_id |-> task_id, code |-> 404]
          /\ UNCHANGED scan_tasks
       ELSE IF task[task_id].is_scanning THEN
          /\ response' = [op |-> "delete_task", task_id |-> task_id, code |-> 400]
          /\ UNCHANGED scan_tasks
       ELSE
          /\ scan_tasks' = scan_tasks \ {task_id}
          /\ response' = [op |-> "delete_task", task_id |-> task_id, code |-> 200]
    /\ UNCHANGED << tasks_lock, task, pc, futures, now, tasks_to_remove >>
    /\ UNCHANGED << prober_vars, web_vars >>

(***************************************************************************)
(* cleanup_old_tasks, lines 444-460.  The lock is held from line 448 to    *)
(* line 460; the worker threads write task fields without it, so the scan  *)
(* of lines 452-456 and the removal of lines 458-459 are two steps.        *)
(***************************************************************************)
\* lines 448-456 with age >= 3600 for age > 3600
CleanupCollect_inclusive ==
    /\ tasks_lock = "free"
    /\ tasks_lock' = "cleanup"
    /\ tasks_to_remove' =
          {task_id \in scan_tasks :
              /\ ~task[task_id].is_scanning
              /\ now - task[task_id].created_at >= RetentionWindow}
    /\ response' = NoResponse
    /\ UNCHANGED << scan_tasks, task, pc, futures, now >>
    /\ UNCHANGED << prober_vars, web_vars >>

\* lines 448-456
CleanupCollect ==
    /\ tasks_lock = "free"
    /\ tasks_lock' = "cleanup"
    /\ tasks_to_remove' =
          {task_id \in scan_tasks :
              /\ ~task[task_id].is_scanning
              /\ now - task[task_id].created_at > RetentionWindow}
    /\ response' = NoResponse
    /\ UNCHANGED << scan_tasks, task, pc, futures, now >>
    /\ UNCHANGED << prober_vars, web_vars >>

\* lines 458-460
CleanupRemove ==
    /\ tasks_lock = "cleanup"
    /\ scan_tasks' = scan_tasks \ tasks_to_remove
    /\ tasks_to_remove' = {}
    /\ tasks_lock' = "free"
    /\ response' = NoResponse
    /\ UNCHANGED << task, pc, futures, now >>
    /\ UNCHANGED << prober_vars, web_vars >>

\* the clock
Tick ==
    /\ now + TickStep <= MaxNow
    /\ now' = now + TickStep
    /\ response' = NoResponse
    /\ UNCHANGED << scan_tasks, tasks_lock, task, pc, futures, tasks_to_remove >>
    /\ UNCHANGED << prober_vars, web_vars >>

(***************************************************************************)
(* scan_network_thread, lines 402-441: one thread per task, started by     *)
(* start_scan.  pc[task_id] names the line the thread is about to run.     *)
(* Only the lookup of lines 404-407 takes tasks_lock.                      *)
(***************************************************************************)
Worker(task_id, from, to) ==
    /\ task_id \in Issued
    /\ pc[task_id] = from
    /\ pc' = [pc EXCEPT ![task_id] = to]
    /\ response' = NoResponse
    /\ UNCHANGED << scan_tasks, tasks_lock, now, tasks_to_remove >>
    /\ UNCHANGED << prober_vars, web_vars >>

\* lines 404-407
Lookup(task_id) ==
    /\ tasks_lock = "free"
    /\ Worker(task_id, "L404", IF task_id \in scan_tasks THEN "L409" ELSE "done")
    /\ UNCHANGED << task, futures >>

\* line 409 left out: the flag is never raised
SetScanning_skipped(task_id) ==
    /\ Worker(task_id, "L409", "L410")
    /\ UNCHANGED << task, futures >>

\* line 409
SetScanning(task_id) ==
    /\ Worker(task_id, "L409", "L410")
    /\ task' = [task EXCEPT ![task_id].is_scanning = TRUE]
    /\ UNCHANGED futures

\* line 410
SetStartTime(task_id) ==
    /\ Worker(task_id, "L410", "L413")
    /\ task' = [task EXCEPT ![task_id].start_time = now]
    /\ UNCHANGED futures

\* lines 413-415; ip_network raising ValueError leads to line 431
Enumerate(task_id) ==
    /\ task_id \in Issued
    /\ IF ValidNetwork(task[task_id].network) THEN
          /\ Worker(task_id, "L413", "L417")
          /\ task' = [task EXCEPT ![task_id].total =
                          num_addresses(task[task_id].network)]
       ELSE
          /\ Worker(task_id, "L413", "L433")
          /\ UNCHANGED task
    /\ UNCHANGED futures

\* lines 417-421: ThreadPoolExecutor raises ValueError for max_workers <= 0;
\* otherwise one future per host is submitted, in the order of hosts()
Submit(task_id) ==
    /\ task_id \in Issued
    /\ IF task[task_id].threads <= 0 THEN
          /\ Worker(task_id, "L417", "L433")
          /\ UNCHANGED futures
       ELSE
          /\ Worker(task_id, "L417", "L424")
          /\ futures' = [futures EXCEPT ![task_id] =
                [i \in 1..Len(hosts(task[task_id].network)) |->
                    [state |-> "queued", ip |-> hosts(task[task_id].network)[i],
                     result |-> NoResult, finished |-> 0, connect |-> None]]]
    /\ UNCHANGED task

\* a pool thread takes the next queued work item (the queue is FIFO) when
\* fewer than max_workers threads are busy
PoolStart(task_id, i) ==
    /\ task_id \in Issued
    /\ i \in DOMAIN futures[task_id]
    /\ futures[task_id][i].state = "queued"
    /\ \A j \in 1..(i - 1) : futures[task_id][j].state # "queued"
    /\ Cardinality({j \in DOMAIN futures[task_id] :
                      futures[task_id][j].state = "running"}) < task[task_id].threads
    /\ futures' = [futures EXCEPT ![task_id][i].state = "running"]
    /\ response' = NoResponse
    /\ UNCHANGED << scan_tasks, tasks_lock, task, pc, now, tasks_to_remove >>
    /\ UNCHANGED << prober_vars, web_vars >>

\* scan_port returns in a pool thread: the connection attempt ended as
\* connect and, for an open port of a quality-check task, the prober
\* returned quality
\* (finished numbers the futures of a task in the order they completed,
\* connect keeps what the connection attempt did)
PoolFinish(task_id, i, connect, quality) ==
    /\ task_id \in Issued
    /\ i \in DOMAIN futures[task_id]
    /\ futures[task_id][i].state = "running"
    /\ futures' = [futures EXCEPT ![task_id][i] =
          [@ EXCEPT !.state = "done",
                    !.connect = connect,
                    !.finished = 1 + Cardinality({j \in DOMAIN futures[task_id] :
                                        futures[task_id][j].state = "done"}),
                    !.result = scan_port(futures[task_id][i].ip, task[task_id].port,
                                         task[task_id].check_proxy_quality,
                                         connect, quality, now)]]
    /\ response' = NoResponse
    /\ UNCHANGED << scan_tasks, tasks_lock, task, pc, now, tasks_to_remove >>
    /\ UNCHANGED << prober_vars, web_vars >>

\* lines 423-425: the futures are awaited in the order of the list; at the
\* end of the list the with block is left for line 436; future.result()
\* raises what the call raised, which leads to line 431
Collect(task_id) ==
    /\ task_id \in Issued
    /\ LET i == task[task_id].scanned + 1
       IN  IF i > Len(futures[task_id]) THEN
              /\ Worker(task_id, "L424", "L436")
              /\ UNCHANGED task
           ELSE IF futures[task_id][i].result = RaisedResult THEN
              /\ futures[task_id][i].state = "done"
              /\ Worker(task_id, "L424", "L433")
              /\ UNCHANGED task
           ELSE
              /\ futures[task_id][i].state = "done"
              /\ Worker(task_id, "L424", "L426")
              /\ task' = [task EXCEPT ![task_id].scanned = @ + 1]
    /\ UNCHANGED futures

\* line 426: int((task.scanned / total_hosts) * 100)
Progress(task_id) ==
    /\ Worker(task_id, "L426", "L428")
    /\ task' = [task EXCEPT ![task_id].progress =
                    (task[task_id].scanned * 100) \div task[task_id].total]
    /\ UNCHANGED futures

\* lines 428-429; result is that of the future just awaited
AppendResult(task_id) ==
    /\ Worker(task_id, "L428", "L424")
    /\ LET result == futures[task_id][task[task_id].scanned].result
       IN  task' = [task EXCEPT ![task_id].results =
                       IF result.status = "open" THEN Append(@, result) ELSE @]
    /\ UNCHANGED futures

\* lines 431-433 without the assignment of line 433
RecordError_skipped(task_id) ==
    /\ Worker(task_id, "L433", "L436")
    /\ UNCHANGED << task, futures >>

\* lines 431-433
RecordError(task_id) ==
    /\ Worker(task_id, "L433", "L436")
    /\ task' = [task EXCEPT ![task_id].error = "str(e)"]
    /\ UNCHANGED futures

\* line 436 left out: the flag is never cleared
ClearScanning_skipped(task_id) ==
    /\ Worker(task_id, "L436", "L437")
    /\ UNCHANGED << task, futures >>

\* line 436
ClearScanning(task_id) ==
    /\ Worker(task_id, "L436", "L437")
    /\ task' = [task EXCEPT ![task_id].is_scanning = FALSE]
    /\ UNCHANGED futures

\* line 437
SetEndTime(task_id) ==
    /\ Worker(task_id, "L437", "L440")
    /\ task' = [task EXCEPT ![task_id].end_time = now]
    /\ UNCHANGED futures

\* lines 440-441
SortResults(task_id) ==
    /\ Worker(task_id, "L440", "done")
    /\ task' = [task EXCEPT ![task_id].results =
          IF task[task_id].check_proxy_quality /\ @ # << >>
          THEN SortByScore(@) ELSE @]
    /\ UNCHANGED futures

(***************************************************************************)
(* One call of test_proxy_quality, step by step: each requests.get of the  *)
(* loops of lines 220-289 is a step, then the endpoint check of lines      *)
(* 292-294 and the score of lines 302-355.  prober_pc holds the loop       *)
(* indices; sent logs the probes issued on the wire and what came back:    *)
(* the status (0 when the request raised), the elapsed time, whether the   *)
(* body parsed.                                                            *)
(***************************************************************************)
\* the call, lines 173-217
ProberCall ==
    /\ prober_pc.at = "idle"
    /\ prober_pc' = [at |-> "L227", config |-> 1, site |-> 1]
    /\ prober' = InitialProber
    /\ sent' = << >>
    /\ checker' = NoChecker
    /\ UNCHANGED << registry_vars, web_vars >>

\* the inner loop left at the first probe that raises
Probe_stop_on_error(out) ==
    /\ prober_pc.at = "L227"
    /\ LET config == proxy_configs[prober_pc.config]
           site == sorted_sites[prober_pc.site]
       IN  /\ sent' = Append(sent, [type |-> config.type, site |-> site.name,
                                     status |-> out.status, elapsed |-> out.elapsed,
                                     json |-> out.json])
           /\ prober' = ProbeStep(prober, config, site, out)
    /\ UNCHANGED checker
    /\ prober_pc' = IF prober_pc.site < Len(sorted_sites) /\ out.kind = "response"
                    THEN [prober_pc EXCEPT !.site = @ + 1]
                    ELSE [prober_pc EXCEPT !.at = "L288"]
    /\ UNCHANGED << registry_vars, web_vars >>

\* lines 225-285: one probe, ending as out
Probe(out) ==
    /\ prober_pc.at = "L227"
    /\ LET config == proxy_configs[prober_pc.config]
           site == sorted_sites[prober_pc.site]
       IN  /\ sent' = Append(sent, [type |-> config.type, site |-> site.name,
                                     status |-> out.status, elapsed |-> out.elapsed,
                                     json |-> out.json])
           /\ prober' = ProbeStep(prober, config, site, out)
    /\ UNCHANGED checker
    /\ prober_pc' = IF prober_pc.site < Len(sorted_sites)
                    THEN [prober_pc EXCEPT !.site = @ + 1]
                    ELSE [prober_pc EXCEPT !.at = "L288"]
    /\ UNCHANGED << registry_vars, web_vars >>

\* the outer loop without the break of lines 288-289
NextConfig_no_break ==
    /\ prober_pc.at = "L288"
    /\ prober_pc' =
          IF prober_pc.config = Len(proxy_configs)
          THEN [prober_pc EXCEPT !.at = "L292"]
          ELSE [at |-> "L227", config |-> prober_pc.config + 1, site |-> 1]
    /\ UNCHANGED << prober, sent, checker >>
    /\ UNCHANGED << registry_vars, web_vars >>

\* lines 288-289 and the end of the outer loop
NextConfig ==
    /\ prober_pc.at = "L288"
    /\ prober_pc' =
          IF prober.proxy_info.is_working \/ prober_pc.config = Len(proxy_configs)
          THEN [prober_pc EXCEPT !.at = "L292"]
          ELSE [at |-> "L227", config |-> prober_pc.config + 1, site |-> 1]
    /\ UNCHANGED << prober, sent, checker >>
    /\ UNCHANGED << registry_vars, web_vars >>

\* lines 72-77: every service starts unavailable, status unknown
InitialAvailability ==
    [i \in 1..Len(ai_endpoints) |->
        [available |-> FALSE, status |-> "unknown", response_time |-> NoNumber]]

\* line 292 without its test: the checker is called for every report
CheckAiModels_unconditional ==
    /\ prober_pc.at = "L292"
    /\ checker' = [ai_availability |-> InitialAvailability, requests |-> << >>]
    /\ prober_pc' = [prober_pc EXCEPT !.at = "L108"]
    /\ UNCHANGED << prober, sent >>
    /\ UNCHANGED << registry_vars, web_vars >>

\* lines 292-294 and 72-105: the checker is called for a working proxy,
\* with the proxies of the last successful probe (check_ai_models keeps
\* its default, True)
CheckAiModels ==
    /\ prober_pc.at = "L292"
    /\ IF prober.proxy_info.is_working /\ prober.working_proxies # None THEN
          /\ checker' = [ai_availability |-> InitialAvailability, requests |-> << >>]
          /\ prober_pc' = [prober_pc EXCEPT !.at = "L108"]
       ELSE
          /\ prober_pc' = [prober_pc EXCEPT !.at = "L302"]
          /\ UNCHANGED checker
    /\ UNCHANGED << prober, sent >>
    /\ UNCHANGED << registry_vars, web_vars >>

\* the loop of line 107 left at the first request that raises
AiRequest_stop_on_error(out) ==
    /\ prober_pc.at = "L108"
    /\ LET i == Len(checker.requests) + 1
       IN  /\ checker' =
                 [ai_availability |-> [checker.ai_availability EXCEPT ![i] = ai_check(out)],
                  requests |-> Append(checker.requests,
                                      [name |-> ai_endpoints[i],
                                       proxies |-> prober.working_proxies,
                                       out |-> out])]
           /\ prober_pc' = IF i < Len(ai_endpoints) /\ out.kind = "response"
                           THEN prober_pc
                           ELSE [prober_pc EXCEPT !.at = "L165"]
    /\ UNCHANGED << prober, sent >>
    /\ UNCHANGED << registry_vars, web_vars >>

\* lines 107-163: the request to the next service, ending as out
AiRequest(out) ==
    /\ prober_pc.at = "L108"
    /\ LET i == Len(checker.requests) + 1
       IN  /\ checker' =
                 [ai_availability |-> [checker.ai_availability EXCEPT ![i] = ai_check(out)],
                  requests |-> Append(checker.requests,
                                      [name |-> ai_endpoints[i],
                                       proxies |-> prober.working_proxies,
                                       out |-> out])]
           /\ prober_pc' = IF i < Len(ai_endpoints)
                           THEN prober_pc
                           ELSE [prober_pc EXCEPT !.at = "L165"]
    /\ UNCHANGED << prober, sent >>
    /\ UNCHANGED << registry_vars, web_vars >>

\* line 165 and the assignment of line 294
AiReturn ==
    /\ prober_pc.at = "L165"
    /\ prober' = [prober EXCEPT !.proxy_info.ai_models = checker.ai_availability]
    /\ prober_pc' = [prober_pc EXCEPT !.at = "L302"]
    /\ UNCHANGED << sent, checker >>
    /\ UNCHANGED << registry_vars, web_vars >>

\* lines 302-357
Score ==
    /\ prober_pc.at = "L302"
    /\ prober' = [prober EXCEPT !.proxy_info = ScoreQuality(@)]
    /\ prober_pc' = [prober_pc EXCEPT !.at = "done"]
    /\ UNCHANGED << sent, checker >>
    /\ UNCHANGED << registry_vars, web_vars >>

(***************************************************************************)
(* scanner_web: the single-scan web application.  One global scan_status   *)
(* is shared by the request handlers and by every scan thread; no lock     *)
(* guards it.  web_threads[w] is the w-th thread started by start_scan:    *)
(* the line it is at, its network argument, the futures it has awaited,    *)
(* and the locals of the statement scan_status['scanned'] += 1, which      *)
(* loads the counter and stores it in two steps.                           *)
(***************************************************************************)
\* threading.Thread(target=scan_network_thread, args=(network, port, threads))
WebThread(network) ==
    [pc |-> "L56", network |-> network, i |-> 0, result |-> FALSE, scanned |-> 0]

\* POST /api/scan of scanner_web, lines 511-529: refused while is_scanning
\* is set, and otherwise a new scan thread is started; the thread has not
\* run its first statement when the handler returns
web_start_scan(network) ==
    /\ Len(web_threads) < MaxWebThreads
    /\ IF scan_status.is_scanning
       THEN /\ response' = [op |-> "web_start_scan", task_id |-> 0, code |-> 200,
                            status |-> "error"]
            /\ UNCHANGED web_threads
       ELSE /\ web_threads' = Append(web_threads, WebThread(network))
            /\ response' = [op |-> "web_start_scan", task_id |-> 0, code |-> 200,
                            status |-> "started"]
    /\ UNCHANGED << scan_tasks, tasks_lock, task, pc, futures, now, tasks_to_remove >>
    /\ UNCHANGED << prober_vars, scan_status >>

\* GET /api/status of scanner_web, lines 532-535
web_get_status ==
    /\ response' = [op |-> "web_get_status", task_id |-> 0, code |-> 200,
                    body |-> scan_status]
    /\ UNCHANGED << scan_tasks, tasks_lock, task, pc, futures, now, tasks_to_remove >>
    /\ UNCHANGED << prober_vars, web_vars >>

\* line 56: the first statement of the thread sets the flag
WebSetScanning(w) ==
    /\ web_threads[w].pc = "L56"
    /\ scan_status' = [scan_status EXCEPT !.is_scanning = TRUE]
    /\ web_threads' = [web_threads EXCEPT ![w].pc = "L57"]
    /\ UNCHANGED << registry_vars, prober_vars >>

\* lines 57-60: the counters, the results and the start time are reset
WebReset(w) ==
    /\ web_threads[w].pc = "L57"
    /\ scan_status' = [scan_status EXCEPT !.progress = 0, !.scanned = 0,
                                          !.results = << >>, !.start_time = now]
    /\ web_threads' = [web_threads EXCEPT ![w].pc = "L63"]
    /\ UNCHANGED << registry_vars, prober_vars >>

\* lines 63-71: ip_network raises on a malformed network (line 81 swallows
\* it); otherwise total is the address count and one future per host is
\* submitted
WebEnumerate(w) ==
    /\ web_threads[w].pc = "L63"
    /\ IF ValidNetwork(web_threads[w].network)
       THEN /\ scan_status' = [scan_status EXCEPT
                                 !.total = num_addresses(web_threads[w].network)]
            /\ web_threads' = [web_threads EXCEPT ![w].pc = "L74"]
       ELSE /\ web_threads' = [web_threads EXCEPT ![w].pc = "L85"]
            /\ UNCHANGED scan_status
    /\ UNCHANGED << registry_vars, prober_vars >>

\* lines 73-75: the next future is awaited (open: scan_port found the port
\* open) and the counter is loaded; after the last future the with block
\* is left
WebAwait(w, open) ==
    /\ web_threads[w].pc = "L74"
    /\ IF web_threads[w].i < Len(hosts(web_threads[w].network))
       THEN web_threads' = [web_threads EXCEPT ![w].pc = "L75",
                                               ![w].result = open,
                                               ![w].scanned = scan_status.scanned]
       ELSE /\ open = FALSE
            /\ web_threads' = [web_threads EXCEPT ![w].pc = "L85"]
    /\ UNCHANGED << registry_vars, prober_vars, scan_status >>

\* lines 75-79: the counter is stored, the percentage is computed from it
\* and an open host is appended to the results
WebStore(w) ==
    LET t == web_threads[w]
        ip == hosts(t.network)[t.i + 1]
    IN  /\ t.pc = "L75"
        /\ scan_status' = [scan_status EXCEPT
              !.scanned = t.scanned + 1,
              !.progress = ((t.scanned + 1) * 100) \div num_addresses(t.network),
              !.results = IF t.result THEN Append(@, ip) ELSE @]
        /\ web_threads' = [web_threads EXCEPT ![w].pc = "L74", ![w].i = t.i + 1]
        /\ UNCHANGED << registry_vars, prober_vars >>

\* line 85, in the finally block: the flag is cleared
WebClearScanning(w) ==
    /\ web_threads[w].pc = "L85"
    /\ scan_status' = [scan_status EXCEPT !.is_scanning = FALSE]
    /\ web_threads' = [web_threads EXCEPT ![w].pc = "L86"]
    /\ UNCHANGED << registry_vars, prober_vars >>

\* line 86: the end time is stamped and the thread ends
WebEndTime(w) ==
    /\ web_threads[w].pc = "L86"
    /\ scan_status' = [scan_status EXCEPT !.end_time = now]
    /\ web_threads' = [web_threads EXCEPT ![w].pc = "done"]
    /\ UNCHANGED << registry_vars, prober_vars >>

\* one step of one scan thread of scanner_web
WebThreadStep ==
    \E w \in 1..Len(web_threads) :
       \/ WebSetScanning(w)
       \/ WebReset(w)
       \/ WebEnumerate(w)
       \/ \E open \in BOOLEAN : WebAwait(w, open)
       \/ WebStore(w)
       \/ WebClearScanning(w)
       \/ WebEndTime(w)

(***************************************************************************)
(* Inputs.                                                                 *)
(***************************************************************************)
\* "10.0.0.0/30", "10.0.0.2/31", "10.0.0.3/32", "10.0.0.0/33", "bad"
Net(addr, prefix) == [wellformed |-> TRUE, addr |-> addr, prefix |-> prefix]
NetworkInputs ==
    { Net(0, 30), Net(2, 31), Net(3, 32), Net(0, 33),
      [wellformed |-> FALSE, addr |-> 0, prefix |-> 0] }

PortInputs == {0, 22, 65536}
ThreadInputs == {0, 1, 2}

\* what one requests.get of a reference site can do
Resp(status, elapsed, json) ==
    [kind |-> "response", status |-> status, elapsed |-> elapsed, json |-> json]
Raised(kind) == [kind |-> kind, status |-> 0, elapsed |-> 0, json |-> FALSE]

ProbeOutcomes ==
    { Resp(200, 250000, TRUE), Resp(200, 700000, FALSE), Resp(204, 299996, FALSE),
      Resp(403, 250000, TRUE), Resp(404, 250000, FALSE) }
    \cup { Raised(k) : k \in {"ProxyError", "Timeout", "SSLError",
                              "ConnectionError", "Exception"} }

\* what one requests.get of a named endpoint can do
AiResp(status, blocked, has_text) ==
    [kind |-> "response", status |-> status, blocked |-> blocked,
     has_text |-> has_text, elapsed |-> 400000]
AiRaised(kind) ==
    [kind |-> kind, status |-> 0, blocked |-> FALSE, has_text |-> FALSE, elapsed |-> 0]

\* the first k endpoints answer 200, the others time out or answer 403
AiInputs ==
    { [i \in 1..Len(ai_endpoints) |->
          IF i <= k THEN AiResp(200, FALSE, TRUE) ELSE other] :
      k \in 0..Len(ai_endpoints),
      other \in {AiRaised("Timeout"), AiResp(403, FALSE, FALSE)} }

\* the quality reports the connect outcomes of a scan draw from: no proxy
\* at all; an HTTP proxy reaching the geolocation service and the beacon;
\* a SOCKS5 proxy reaching only the geolocation service, slowly
AllFail == [i \in 1..3 |-> Raised("ProxyError")]
NoEndpoints == [i \in 1..4 |-> AiRaised("Timeout")]
QualityReports ==
    { test_proxy_quality(<< AllFail, AllFail >>, NoEndpoints, TRUE),
      test_proxy_quality(
          << << Resp(200, 250000, TRUE), Resp(204, 299996, FALSE), Raised("Timeout") >>,
             AllFail >>, NoEndpoints, TRUE),
      test_proxy_quality(
          << AllFail,
             << Resp(403, 700000, FALSE), Raised("Timeout"), Raised("Timeout") >> >>,
          NoEndpoints, TRUE) }

ConnectOutcomes == {"open", "closed", "raised"}

\* the prober runs only for an open port of a quality-check task
QualityFor(task_id, connect) ==
    IF task_id \in Issued /\ connect = "open" /\ task[task_id].check_proxy_quality
    THEN QualityReports ELSE {InitialProxyInfo}

\* the most hosts a network of NetworkInputs has
MaxHosts == 2

(***************************************************************************)
(* The specifications.                                                     *)
(***************************************************************************)
\* a create request drawn from the given inputs
Create(networks, ports, thread_counts, flags) ==
    \E network \in networks, port \in ports, threads \in thread_counts,
       check_proxy_quality \in flags :
       start_scan(network, port, threads, check_proxy_quality)

\* a request about one task, or a step of its worker or of its pool
TaskStep ==
    \E task_id \in TaskIds :
       \/ get_task_status(task_id)
       \/ get_task_results(task_id)
       \/ delete_task(task_id)
       \/ Lookup(task_id)
       \/ SetScanning(task_id)
       \/ SetStartTime(task_id)
       \/ Enumerate(task_id)
       \/ Submit(task_id)
       \/ \E i \in 1..MaxHosts : PoolStart(task_id, i)
       \/ \E i \in 1..MaxHosts, connect \in ConnectOutcomes :
             \E quality \in QualityFor(task_id, connect) :
                PoolFinish(task_id, i, connect, quality)
       \/ Collect(task_id)
       \/ Progress(task_id)
       \/ AppendResult(task_id)
       \/ RecordError(task_id)
       \/ ClearScanning(task_id)
       \/ SetEndTime(task_id)
       \/ SortResults(task_id)

\* The registry over time: up to MaxTasks tasks on single-host networks,
\* the clock and the retention sweep.
Next ==
    \/ Create({Net(3, 32), Net(0, 33)}, {22, 65536}, {0, 1}, {FALSE})
    \/ TaskStep
    \/ get_all_tasks
    \/ CleanupCollect
    \/ CleanupRemove
    \/ Tick

Spec == Init /\ [][Next]_vars

\* The scan of one task, for every input, with the clock standing still.
CreateOne ==
    /\ Create(NetworkInputs, PortInputs, ThreadInputs, BOOLEAN)
    /\ Len(task') <= 1

NextScan ==
    \/ CreateOne
    \/ TaskStep
    \/ get_all_tasks

SpecScan == Init /\ [][NextScan]_vars

\* scanner_web: start requests, status requests and the scan threads
NextWeb ==
    \/ \E network \in {Net(3, 32), Net(0, 30), Net(0, 33)} : web_start_scan(network)
    \/ web_get_status
    \/ WebThreadStep

SpecWeb == Init /\ [][NextWeb]_vars

\* The scan of one task where every thread that can run eventually does:
\* the worker thread of the task (lines 409-441) and the threads of its
\* pool, each probe returning within its timeout.
WorkerStep(task_id) ==
    \/ SetScanning(task_id)
    \/ SetStartTime(task_id)
    \/ Enumerate(task_id)
    \/ Submit(task_id)
    \/ Collect(task_id)
    \/ Progress(task_id)
    \/ AppendResult(task_id)
    \/ RecordError(task_id)
    \/ ClearScanning(task_id)
    \/ SetEndTime(task_id)
    \/ SortResults(task_id)

PoolStep(task_id) ==
    \/ \E i \in 1..MaxHosts : PoolStart(task_id, i)
    \/ \E i \in 1..MaxHosts, connect \in ConnectOutcomes :
          \E quality \in QualityFor(task_id, connect) :
             PoolFinish(task_id, i, connect, quality)

Fairness ==
    \A task_id \in TaskIds :
        WF_vars(WorkerStep(task_id)) /\ WF_vars(PoolStep(task_id))

SpecLive == Init /\ [][NextScan]_vars /\ Fairness

\* one call of the proxy quality prober
NextProber ==
    \/ ProberCall
    \/ \E out \in ProbeOutcomes : Probe(out)
    \/ NextConfig
    \/ CheckAiModels
    \/ \E out \in {AiResp(200, FALSE, TRUE), AiRaised("Timeout")} : AiRequest(out)
    \/ AiReturn
    \/ Score

SpecProber == Init /\ [][NextProber]_vars

\* The score of lines 301-355 applied to every report the probes of lines
\* 220-294 can leave behind: the reference sites tallied (the geolocation
\* service never is), the best latency on either side of every threshold
\* (in hundredths of a millisecond), and the endpoint report.
LatencyInputs ==
    { Ms(t) + d : t \in {300, 600, 1000, 2000, 3000, 5000}, d \in {-1, 0} }
    \cup { 1, Ms(8000) }

SiteInputs == { << >>, << "Google" >>, << "YouTube" >>, << "Google", "YouTube" >> }

ReportInputs ==
    { [InitialProxyInfo EXCEPT !.is_working = TRUE, !.http_code = 200,
                               !.proxy_type = "http",
                               !.accessible_sites = sites,
                               !.response_time = response_time,
                               !.ai_models = test_ai_model_availability(ai_outs)] :
        sites \in SiteInputs, response_time \in LatencyInputs, ai_outs \in AiInputs }
    \cup { [InitialProxyInfo EXCEPT !.error = ErrorMessage(kind)] :
             kind \in {"ProxyError", "Timeout"} }

InitScore ==
    /\ scan_tasks = {}
    /\ tasks_lock = "free"
    /\ task = << >>
    /\ pc = << >>
    /\ futures = << >>
    /\ now = 0
    /\ tasks_to_remove = {}
    /\ response = NoResponse
    /\ prober_pc = [at |-> "L302", config |-> 1, site |-> Len(sorted_sites)]
    /\ \E info \in ReportInputs :
          prober = [proxy_info |-> info, best_time |-> info.response_time,
                    successful_config |-> IF info.is_working THEN "http" ELSE None,
                    working_proxies |-> IF info.is_working THEN "http" ELSE None]
    /\ sent = << >>
    /\ checker = NoChecker
    /\ scan_status = InitialScanStatus
    /\ web_threads = << >>

NextScore == Score

SpecScore == InitScore /\ [][NextScore]_vars

\* One call of the endpoint checker for a proxy found working under HTTP
\* or under SOCKS5, for every outcome of each of its four requests.
AiOutcomes ==
    { AiResp(status, blocked, has_text) :
        status \in {200, 301, 302}, blocked \in BOOLEAN, has_text \in BOOLEAN }
    \cup { AiResp(status, FALSE, FALSE) : status \in {403, 404, 500} }
    \cup { AiResp(403, TRUE, TRUE) }
    \cup { AiRaised(kind) : kind \in {"Timeout", "ConnectionError", "Exception"} }

WorkingProbers ==
    { ProbeConfigs(InitialProber,
                   << << Resp(200, 250000, TRUE), Resp(204, 299996, FALSE),
                         Raised("Timeout") >>, AllFail >>, 1),
      ProbeConfigs(InitialProber,
                   << AllFail,
                      << Resp(403, 700000, FALSE), Raised("Timeout"),
                         Raised("Timeout") >> >>, 1) }

InitChecker ==
    /\ scan_tasks = {}
    /\ tasks_lock = "free"
    /\ task = << >>
    /\ pc = << >>
    /\ futures = << >>
    /\ now = 0
    /\ tasks_to_remove = {}
    /\ response = NoResponse
    /\ prober \in WorkingProbers
    /\ prober_pc = [at |-> "L292",
                    config |-> IF prober.working_proxies = "http" THEN 1 ELSE 2,
                    site |-> Len(sorted_sites)]
    /\ sent = << >>
    /\ checker = NoChecker
    /\ scan_status = InitialScanStatus
    /\ web_threads = << >>

NextChecker ==
    \/ CheckAiModels
    \/ \E out \in AiOutcomes : AiRequest(out)
    \/ AiReturn
    \/ Score

SpecChecker == InitChecker /\ [][NextChecker]_vars

(***************************************************************************)
(* Properties.                                                             *)
(***************************************************************************)
\* the handler of this step (its response is response')
Handled(op, task_id) == response'.op = op /\ response'.task_id = task_id

\* C1: delete_task on a running task answers Conflict (400) and leaves the
\* registry and the task as they were; delete_task on a completed task
\* succeeds and removes it; a removed identity never comes back, and
\* get_task_status on an identity that is not in the registry answers 404.
C1_DeleteRunningConflict ==
    [][\A task_id \in TaskIds :
          /\ (Handled("delete_task", task_id) /\ task_id \in scan_tasks
                 /\ Running(task[task_id]))
             => (response'.code = 400 /\ scan_tasks' = scan_tasks /\ task' = task)
          /\ (Handled("delete_task", task_id) /\ task_id \in scan_tasks
                 /\ Completed(task[task_id]))
             => (response'.code = 200 /\ task_id \notin scan_tasks')
          /\ (task_id \in Issued /\ task_id \notin scan_tasks)
             => task_id \notin scan_tasks'
          /\ (Handled("get_task_status", task_id) /\ task_id \notin scan_tasks)
             => response'.code = 404
      ]_vars

\* a completed task was deleted (the sweep cannot have removed it: no time
\* has passed since its creation) and a later get_task_status answered 404
C1_Witness ==
    /\ response.op = "get_task_status"
    /\ response.code = 404
    /\ response.task_id \in Issued
    /\ Completed(task[response.task_id])
    /\ now = task[response.task_id].created_at

\* C2: the state of a task only moves pending -> running -> completed or
\* failed: every step leaves it where it is or takes one of these moves, so
\* a terminal state is never left and running is never skipped.
C2_StateMachine ==
    [][\A task_id \in Issued :
          LET before == TaskState(task[task_id])
              after == TaskState(task'[task_id])
          IN  \/ after = before
              \/ before = "pending" /\ after = "running"
              \/ before = "running" /\ after \in {"completed", "failed"}
      ]_vars

\* a task has failed, and is still in the registry
C2_Witness ==
    \E task_id \in scan_tasks :
        /\ Failed(task[task_id])
        /\ pc[task_id] = "done"

\* C3: once a task is terminal (no longer running) its results list is
\* never mutated again while the task is in the registry, so every later
\* read returns the same sequence.
C3_ResultsFrozenOnceTerminal ==
    [][\A task_id \in scan_tasks \cap scan_tasks' :
          Terminal(task[task_id])
          => task'[task_id].results = task[task_id].results
      ]_vars

\* C4: once the targets are enumerated and submitted, total is the number
\* of addresses submitted for probing, and none of them is the network or
\* the broadcast address.
C4_TotalIsHostCount ==
    \A task_id \in Issued :
        futures[task_id] # << >>
        => /\ task[task_id].total = Len(futures[task_id])
           /\ \A i \in DOMAIN futures[task_id] :
                 futures[task_id][i].ip \notin
                    { network_address(task[task_id].network),
                      broadcast_address(task[task_id].network) }

\* C5: scanned never decreases, and a task that has completed after all its
\* probe units were awaited has scanned = total.
C5_ScannedReachesTotal ==
    [][\A task_id \in Issued :
          /\ task'[task_id].scanned >= task[task_id].scanned
          /\ (Completed(task'[task_id]) /\ futures'[task_id] # << >>)
             => task'[task_id].scanned = task'[task_id].total
      ]_vars

\* C6: a task on 10.0.0.0/30 with concurrency 2 and no quality check, where
\* no host accepted a connection, ends completed with total = 2, no results
\* and no error.
C6_Slash30Scenario ==
    \A task_id \in Issued :
        ( /\ task[task_id].network = Net(0, 30)
          /\ task[task_id].threads = 2
          /\ ~task[task_id].check_proxy_quality
          /\ pc[task_id] = "done"
          /\ futures[task_id] # << >>
          /\ \A i \in DOMAIN futures[task_id] :
                futures[task_id][i].result.status # "open" )
        => /\ Completed(task[task_id])
           /\ task[task_id].total = 2
           /\ task[task_id].results = << >>
           /\ task[task_id].error = None

\* the probes of sent that proved a round trip
Succeeded(i) == sent[i].status \in SuccessCodes

\* the scenario of C7: the prober has returned; under HTTP the geolocation
\* service answered 200 in 250 ms, the beacon 204, the media site was not
\* reached; no named endpoint is available
C7_Scenario ==
    /\ prober_pc.at = "done"
    /\ Len(sent) = 3
    /\ \A i \in 1..3 : sent[i].type = "http"
    /\ sent[1].site = "IP Check" /\ sent[1].status = 200 /\ sent[1].elapsed = 250000
    /\ sent[2].site = "Google" /\ sent[2].status = 204
    /\ sent[3].site = "YouTube" /\ ~Succeeded(3)
    /\ prober.proxy_info.ai_models # NoReport
    /\ \A i \in DOMAIN prober.proxy_info.ai_models :
          ~prober.proxy_info.ai_models[i].available

\* C7 as claimed: in that scenario the report has 2 accessible sites, score
\* 85 and band excellent.
C7_ScenarioAsClaimed ==
    C7_Scenario
    => /\ Len(prober.proxy_info.accessible_sites) = 2
       /\ prober.proxy_info.quality_score = 85
       /\ prober.proxy_info.quality_level = "excellent"

\* C7 as amended: in that scenario the geolocation service is not tallied,
\* so the report has 1 accessible site (the beacon), score 30 + 20 + 30 = 80
\* and band good.
C7_ScenarioScore ==
    C7_Scenario
    => /\ prober.proxy_info.accessible_sites = << "Google" >>
       /\ prober.proxy_info.quality_score = 80
       /\ prober.proxy_info.quality_level = "good"

\* the scenario of C7 has run
C7_Witness == C7_Scenario /\ prober.proxy_info.is_working

\* C10: once a probe under HTTP has succeeded no probe under SOCKS5 is ever
\* issued, and the reported proxy type is that of the first probe that
\* succeeded.
C10_NoSecondProtocol ==
    /\ \A i, j \in DOMAIN sent :
          (sent[i].type = "http" /\ Succeeded(i)) => sent[j].type # "socks5"
    /\ \A i \in DOMAIN sent :
          (Succeeded(i) /\ \A j \in 1..(i - 1) : ~Succeeded(j))
          => prober.proxy_info.proxy_type = sent[i].type

\* the prober has returned after a probe under HTTP succeeded
C10_Witness ==
    /\ prober_pc.at = "done"
    /\ \E i \in DOMAIN sent : sent[i].type = "http" /\ Succeeded(i)
    /\ prober.proxy_info.proxy_type = "http"

\* the age cleanup_old_tasks computes for a task, line 454
Age(t) == now - t.created_at

\* C8: the sweep removes a task only if the task is terminal and older than
\* the retention window; it never removes a pending or a running task.
\* (While cleanup_old_tasks holds the lock only it can remove a task.)
C8_SweepRemovesOnlyTerminal ==
    [][tasks_lock = "cleanup"
       => \A task_id \in scan_tasks \ scan_tasks' :
             /\ Terminal(task[task_id])
             /\ Age(task[task_id]) > RetentionWindow
      ]_vars

\* C9: the sweep marks for removal exactly those terminal tasks whose age
\* exceeds the retention window; when it ends the marked tasks are gone,
\* every other task is still there and as it was; and get_all_tasks lists
\* exactly the tasks of the registry.
C9_SweepOutcome ==
    [][/\ (tasks_lock = "free" /\ tasks_lock' = "cleanup")
          => \A task_id \in scan_tasks :
                Terminal(task[task_id])
                => (task_id \in tasks_to_remove'
                       <=> Age(task[task_id]) > RetentionWindow)
       /\ (tasks_lock = "cleanup" /\ tasks_lock' = "free")
          => \A task_id \in scan_tasks :
                IF task_id \in tasks_to_remove
                THEN task_id \notin scan_tasks'
                ELSE task_id \in scan_tasks' /\ task'[task_id] = task[task_id]
       /\ response'.op = "get_all_tasks"
          => { response'.data[i].task_id : i \in DOMAIN response'.data } = scan_tasks'
      ]_vars

\* the sweep is about to remove a terminal task older than the window
C9_Witness ==
    /\ tasks_lock = "cleanup"
    /\ \E task_id \in tasks_to_remove :
          /\ Terminal(task[task_id])
          /\ Age(task[task_id]) > RetentionWindow

\* the number of named endpoints a report found available
AvailableCount(info) ==
    IF info.ai_models = NoReport THEN 0
    ELSE Cardinality({i \in DOMAIN info.ai_models : info.ai_models[i].available})

\* the score of C11 for n accessible sites, a best latency of l hundredths
\* of a millisecond and k available endpoints
C11_Formula(n, l, k) ==
    30
    + (IF n >= 3 THEN 30 ELSE IF n = 2 THEN 25 ELSE IF n = 1 THEN 20 ELSE 0)
    + (IF l < 300 * 100 THEN 30
       ELSE IF l < 600 * 100 THEN 25
       ELSE IF l < 1000 * 100 THEN 20
       ELSE IF l < 2000 * 100 THEN 15
       ELSE IF l < 3000 * 100 THEN 10
       ELSE IF l < 5000 * 100 THEN 5
       ELSE 0)
    + (IF k >= 4 THEN 10 ELSE IF k = 3 THEN 8 ELSE IF k = 2 THEN 6
       ELSE IF k = 1 THEN 4 ELSE 0)

\* C11: the score of a working proxy is 30 + the site bonus + the latency
\* bonus + the endpoint bonus of the tables of C11, whatever the accessible
\* sites, the best latency and the endpoint report are.
C11_ScoreFormula ==
    (prober_pc.at = "done" /\ prober.proxy_info.is_working)
    => prober.proxy_info.quality_score =
          C11_Formula(Len(prober.proxy_info.accessible_sites),
                      prober.proxy_info.response_time,
                      AvailableCount(prober.proxy_info))

\* a working proxy was scored whose best latency is exactly 300 ms, with
\* two accessible sites and all four endpoints available: 30 + 25 + 25 + 10
C11_Witness ==
    /\ prober_pc.at = "done"
    /\ prober.proxy_info.is_working
    /\ prober.proxy_info.response_time = Ms(300)
    /\ Len(prober.proxy_info.accessible_sites) = 2
    /\ AvailableCount(prober.proxy_info) = 4
    /\ prober.proxy_info.quality_score = 90

\* C12: a working proxy is excellent from 85, good from 70, fair from 55,
\* poor from 40 and bad below; a proxy that is not working is unavailable.
C12_Bands ==
    prober_pc.at = "done"
    => LET score == prober.proxy_info.quality_score
           level == prober.proxy_info.quality_level
       IN  IF prober.proxy_info.is_working THEN
              /\ level = "excellent" <=> score >= 85
              /\ level = "good" <=> (70 <= score /\ score < 85)
              /\ level = "fair" <=> (55 <= score /\ score < 70)
              /\ level = "poor" <=> (40 <= score /\ score < 55)
              /\ level = "bad" <=> score < 40
           ELSE level = "unavailable"

\* a working proxy scored exactly 85 and is excellent
C12_Witness ==
    /\ prober_pc.at = "done"
    /\ prober.proxy_info.is_working
    /\ prober.proxy_info.quality_score = 85
    /\ prober.proxy_info.quality_level = "excellent"

\* the latency bucket of a best latency: how many of the thresholds it has
\* reached
LatencyBucket(response_time) ==
    Cardinality({t \in {300, 600, 1000, 2000, 3000, 5000} : response_time >= Ms(t)})

\* the inputs of the score, as C13 names them
ScoreInputs(info) ==
    << Len(info.accessible_sites), LatencyBucket(info.response_time),
       AvailableCount(info) >>

\* the bands of a working proxy, from worst to best
BandRank(level) ==
    CASE level = "bad" -> 0
      [] level = "poor" -> 1
      [] level = "fair" -> 2
      [] level = "good" -> 3
      [] level = "excellent" -> 4

\* C13: the score of a working proxy lies in 30..100; any other working
\* report with the same accessible-site count, latency bucket and endpoint
\* count is given the same score; and any working report given a higher
\* score is given a band that is not lower.
C13_ScoreRangeAndMonotone ==
    (prober_pc.at = "done" /\ prober.proxy_info.is_working)
    => LET mine == prober.proxy_info
       IN  /\ mine.quality_score \in 30..100
           /\ \A other \in {r \in ReportInputs : r.is_working} :
                 LET scored == ScoreQuality(other)
                 IN  /\ ScoreInputs(other) = ScoreInputs(mine)
                        => scored.quality_score = mine.quality_score
                     /\ scored.quality_score > mine.quality_score
                        => BandRank(scored.quality_level) >= BandRank(mine.quality_level)

\* the lowest score of a working proxy: no site tallied, a best latency of
\* 8 s, no endpoint available
C13_Witness ==
    /\ prober_pc.at = "done"
    /\ prober.proxy_info.is_working
    /\ prober.proxy_info.accessible_sites = << >>
    /\ prober.proxy_info.response_time = Ms(8000)
    /\ prober.proxy_info.quality_score = 30

\* the position of the finding for address ip in a results list, 0 if none
PositionOf(results, ip) ==
    IF \E k \in DOMAIN results : results[k].ip = ip
    THEN CHOOSE k \in DOMAIN results : results[k].ip = ip
    ELSE 0

\* C14: while a task runs, if the unit of a later-submitted target
\* completed before the unit of an earlier-submitted one, both found the
\* port open and both findings are in results, the later-submitted target
\* comes first in results.
C14_CompletionOrder ==
    \A task_id \in Issued :
        Running(task[task_id])
        => \A i, j \in DOMAIN futures[task_id] :
              LET earlier == futures[task_id][i]
                  later == futures[task_id][j]
                  results == task[task_id].results
              IN  ( /\ i < j
                    /\ earlier.state = "done" /\ later.state = "done"
                    /\ later.finished < earlier.finished
                    /\ PositionOf(results, earlier.ip) > 0
                    /\ PositionOf(results, later.ip) > 0 )
                  => PositionOf(results, later.ip) < PositionOf(results, earlier.ip)

\* the bijections of 1..n
Bijections(n) ==
    { f \in [1..n -> 1..n] : \A i, j \in 1..n : f[i] = f[j] => i = j }

\* C15: the step that ends a task (lines 440-441) leaves, for a quality
\* check task, a permutation of the results accumulated, in descending
\* order of quality score, entries of equal score in the order they had;
\* for a task without quality check it leaves the results as they were.
C15_FinalSort ==
    [][\A task_id \in Issued :
          (pc[task_id] = "L440" /\ pc'[task_id] = "done")
          => LET before == task[task_id].results
                 after == task'[task_id].results
             IN  IF task[task_id].check_proxy_quality THEN
                    /\ Len(after) = Len(before)
                    /\ \E f \in Bijections(Len(before)) :
                          /\ \A k \in DOMAIN after : after[k] = before[f[k]]
                          /\ \A k, l \in DOMAIN after :
                                k < l
                                => \/ after[k].quality_score > after[l].quality_score
                                   \/ /\ after[k].quality_score = after[l].quality_score
                                      /\ f[k] < f[l]
                 ELSE after = before
      ]_vars

\* a quality-check task has ended with the finding of the second host,
\* of higher score, moved before that of the first
C15_Witness ==
    \E task_id \in Issued :
        /\ pc[task_id] = "done"
        /\ task[task_id].check_proxy_quality
        /\ Len(task[task_id].results) = 2
        /\ task[task_id].results[1].ip > task[task_id].results[2].ip
        /\ task[task_id].results[1].quality_score > task[task_id].results[2].quality_score

\* the worker of a task has entered its try block (lines 412-433) and left
PastTry(task_id) ==
    /\ pc[task_id] \in {"L436", "L437", "L440", "done"}
    /\ task[task_id].start_time # NoNumber

\* C16: a task whose worker left the try block without having submitted
\* any probe (an exception was raised before the first submit) has an error
\* recorded and, once its worker has ended, is failed; and a task with an
\* error recorded has run no probe, has scanned = 0 and no results.
C16_EnumerationFailure ==
    \A task_id \in Issued :
        /\ (PastTry(task_id) /\ futures[task_id] = << >>)
           => /\ task[task_id].error # None
              /\ pc[task_id] = "done" => Failed(task[task_id])
        /\ task[task_id].error # None
           => /\ futures[task_id] = << >>
              /\ task[task_id].scanned = 0
              /\ task[task_id].results = << >>

\* a task created with 0 threads has ended failed, nothing scanned
C16_Witness ==
    \E task_id \in Issued :
        /\ pc[task_id] = "done"
        /\ task[task_id].threads = 0
        /\ Failed(task[task_id])
        /\ task[task_id].scanned = 0
        /\ task[task_id].results = << >>
        /\ futures[task_id] = << >>

\* C17: a create request whose network specification is malformed or whose
\* port is outside 1..65535 is answered with an error status and leaves
\* the registry, the tasks and the worker threads as they were.  (Every
\* create request is answered; the ones answered with success are those
\* that add a task, and the task added carries the request's network and
\* port: none of them is malformed or out of range.)
C17_InvalidInputRejected ==
    [][response'.op = "start_scan"
       => IF response'.code = 200 THEN
             /\ Len(task') = Len(task) + 1
             /\ LET new == task'[Len(task')]
                IN  /\ new.network.wellformed
                    /\ new.network.prefix \in 0..32
                    /\ new.port \in 1..65535
          ELSE
             /\ response'.code >= 400
             /\ scan_tasks' = scan_tasks
             /\ task' = task
             /\ pc' = pc
             /\ futures' = futures
      ]_vars

\* a create request was rejected and there is no task and no worker
C17_Witness ==
    /\ response.op = "start_scan"
    /\ response.code = 400
    /\ scan_tasks = {}
    /\ task = << >>
    /\ pc = << >>

\* C18: a probe whose connection attempt failed, was refused, timed out or
\* raised ends with no result and no exception; a task that has submitted
\* its probes never has an error and is never failed; when its worker ends
\* every target has been probed and awaited; and results holds no finding
\* for a target whose connection attempt did not succeed.
C18_ProbeNeverRaises ==
    \A task_id \in Issued :
        /\ \A i \in DOMAIN futures[task_id] :
              LET future == futures[task_id][i]
              IN  /\ future.result # RaisedResult
                  /\ (future.state = "done" /\ future.connect # "open")
                     => /\ future.result = NoResult
                        /\ PositionOf(task[task_id].results, future.ip) = 0
        /\ futures[task_id] # << >>
           => /\ task[task_id].error = None
              /\ ~Failed(task[task_id])
              /\ pc[task_id] # "L433"
              /\ pc[task_id] = "done"
                 => /\ task[task_id].scanned = Len(futures[task_id])
                    /\ \A i \in DOMAIN futures[task_id] :
                          futures[task_id][i].state = "done"

\* a task has completed whose first probe raised inside scan_port and
\* whose second probe found the port open
C18_Witness ==
    \E task_id \in Issued :
        /\ pc[task_id] = "done"
        /\ Len(futures[task_id]) = 2
        /\ futures[task_id][1].connect = "raised"
        /\ futures[task_id][2].connect = "open"
        /\ Completed(task[task_id])
        /\ Len(task[task_id].results) = 1
        /\ task[task_id].results[1].ip = futures[task_id][2].ip

\* a snapshot whose progress is the one line 426 computes from its scanned
Consistent(snapshot) ==
    snapshot.total > 0
    => snapshot.progress = (snapshot.scanned * 100) \div snapshot.total

\* C19: no snapshot returned to a reader (get_task_status, get_all_tasks)
\* pairs a scanned value with a progress value computed from another
\* scanned value.
C19_NoTornSnapshot ==
    /\ (response.op = "get_task_status" /\ response.code = 200)
       => Consistent(response.data)
    /\ response.op = "get_all_tasks"
       => \A i \in DOMAIN response.data : Consistent(response.data[i])

\* C20: no probe of a task runs while the task is absent from the
\* registry, and from the moment its worker has looked the task up until
\* the worker has finished the task stays in the registry.
C20_PresentWhileWorking ==
    \A task_id \in Issued :
        /\ (\E i \in DOMAIN futures[task_id] : futures[task_id][i].state = "running")
           => task_id \in scan_tasks
        /\ pc[task_id] \notin {"L404", "done"} => task_id \in scan_tasks

\* C21: the working flag is set exactly when some reference-site probe
\* issued so far returned a status in {200, 204, 301, 302, 403}; a probe
\* that raised (status 0 in the log) or returned another status does not
\* count.
C21_WorkingIffSuccess ==
    prober.proxy_info.is_working
    <=> \E i \in DOMAIN sent : sent[i].status \in {200, 204, 301, 302, 403}

\* the prober has returned a working report after exactly one successful
\* probe, among probes that raised or returned 404
C21_Witness ==
    /\ prober_pc.at = "done"
    /\ prober.proxy_info.is_working
    /\ Cardinality({i \in DOMAIN sent : sent[i].status \in {200, 204, 301, 302, 403}}) = 1
    /\ \E i \in DOMAIN sent : sent[i].status = 404
    /\ \E i \in DOMAIN sent : sent[i].status = 0

\* C23: under each protocol attempted the three reference sites are probed
\* in the order geolocation, beacon, media whatever the earlier probes did:
\* the k-th probe issued is that of site ((k - 1) mod 3) + 1 under protocol
\* ((k - 1) div 3) + 1, and when the probing has ended every protocol
\* attempted has had its three probes.
C23_AllSitesInOrder ==
    /\ \A k \in DOMAIN sent :
          /\ sent[k].site = << "IP Check", "Google", "YouTube" >>[((k - 1) % 3) + 1]
          /\ sent[k].type = << "http", "socks5" >>[((k - 1) \div 3) + 1]
    /\ prober_pc.at \in {"L288", "L292", "L108", "L165", "L302", "done"}
       => Len(sent) \in {3, 6}

\* the prober has returned after an HTTP pass whose first probe raised,
\* whose second succeeded and whose third was still issued
C23_Witness ==
    /\ prober_pc.at = "done"
    /\ Len(sent) = 3
    /\ sent[1].status = 0
    /\ sent[2].status = 204
    /\ sent[3].site = "YouTube"

\* the probes of the log that returned one of the five success statuses
SuccessfulProbes ==
    {i \in DOMAIN sent : sent[i].status \in {200, 204, 301, 302, 403}}

\* C24: the latency a report carries is the least elapsed time of the
\* successful probes issued so far (in ms, to two decimals); the probes
\* that failed do not count, and with no successful probe there is none.
C24_BestLatency ==
    IF SuccessfulProbes = {}
    THEN prober.proxy_info.response_time = NoNumber
    ELSE \E i \in SuccessfulProbes :
            /\ \A j \in SuccessfulProbes : sent[i].elapsed <= sent[j].elapsed
            /\ prober.proxy_info.response_time = RoundMs(sent[i].elapsed)

\* the prober has returned after a success in 250 ms followed by a slower
\* success in 700 ms: the latency reported is 250 ms
C24_Witness ==
    /\ prober_pc.at = "done"
    /\ \E i, j \in SuccessfulProbes :
          i < j /\ sent[i].elapsed = 250000 /\ sent[j].elapsed = 700000
    /\ prober.proxy_info.response_time = Ms(250)

\* C25: the exit geolocation fields are set exactly when a probe of the
\* geolocation service returned status 200 with a body that parsed; a 200
\* response whose body does not parse still sets the working flag and is
\* followed by the probes of the two remaining sites.
C25_GeolocationOnly200 ==
    LET parsed == \E i \in DOMAIN sent :
                     sent[i].site = "IP Check" /\ sent[i].status = 200 /\ sent[i].json
    IN  /\ prober.proxy_info.exit_ip # None <=> parsed
        /\ prober.proxy_info.exit_country # None <=> parsed
        /\ \A i \in DOMAIN sent :
              (sent[i].site = "IP Check" /\ sent[i].status = 200 /\ ~sent[i].json)
              => /\ prober.proxy_info.is_working
                 /\ prober_pc.at \in {"L288", "L292", "L108", "L165", "L302", "done"}
                    => (Len(sent) >= i + 2 /\ sent[i + 2].site = "YouTube")

\* the prober has returned a working report without geolocation after a
\* 200 response of the geolocation service that did not parse
C25_Witness ==
    /\ prober_pc.at = "done"
    /\ Len(sent) = 3
    /\ sent[1].site = "IP Check" /\ sent[1].status = 200 /\ ~sent[1].json
    /\ prober.proxy_info.is_working
    /\ prober.proxy_info.exit_ip = None

\* the probe loops of lines 220-289 have ended
ProbingEnded == prober_pc.at \in {"L292", "L108", "L165", "L302", "done"}

\* C22: a report returned with no successful probe is not working, has
\* score 0 and band unavailable and no endpoint report, and no endpoint was
\* requested; an endpoint is only ever requested once the working flag is
\* set, and through the proxies of the protocol whose probes succeeded.
C22_CheckerOnlyWhenWorking ==
    /\ (prober_pc.at = "done" /\ SuccessfulProbes = {})
       => /\ ~prober.proxy_info.is_working
          /\ prober.proxy_info.quality_score = 0
          /\ prober.proxy_info.quality_level = "unavailable"
          /\ prober.proxy_info.ai_models = NoReport
          /\ checker = NoChecker
    /\ checker # NoChecker
       => /\ prober.proxy_info.is_working
          /\ ProbingEnded
          /\ \A k \in DOMAIN checker.requests : \A i \in SuccessfulProbes :
                checker.requests[k].proxies = sent[i].type

\* the prober has returned after six failed probes, the checker not run
C22_Witness ==
    /\ prober_pc.at = "done"
    /\ Len(sent) = 6
    /\ SuccessfulProbes = {}
    /\ checker = NoChecker
    /\ prober.proxy_info.quality_level = "unavailable"

\* C26: what the checker records for a service, by the outcome of its
\* request: timeout or connection_error on these exceptions; blocked on
\* 403; on 200, 301 or 302 blocked if the body has a region-block phrase,
\* else available if the body has the keyword or the status is 200, else
\* uncertain; http_<code> on any other status; available only in the
\* available case.
C26_EndpointCategories ==
    \A i \in DOMAIN checker.requests :
        LET out == checker.requests[i].out
            rec == checker.ai_availability[i]
        IN  /\ out.kind = "Timeout"
               => (rec.status = "timeout" /\ ~rec.available)
            /\ out.kind = "ConnectionError"
               => (rec.status = "connection_error" /\ ~rec.available)
            /\ (out.kind = "response" /\ out.status = 403)
               => (rec.status = "blocked" /\ ~rec.available)
            /\ (out.kind = "response" /\ out.status \in {200, 301, 302})
               => IF out.blocked THEN rec.status = "blocked" /\ ~rec.available
                  ELSE IF out.has_text \/ out.status = 200
                       THEN rec.status = "available" /\ rec.available
                       ELSE rec.status = "uncertain" /\ ~rec.available
            /\ (out.kind = "response" /\ out.status \notin {200, 301, 302, 403})
               => (rec.status = "http_" \o ToString(out.status) /\ ~rec.available)

\* the checker has returned after a 200 without the keyword (available),
\* a 302 without it (uncertain), a 404 and a timeout
C26_Witness ==
    /\ prober_pc.at = "done"
    /\ Len(checker.requests) = 4
    /\ checker.requests[1].out = AiResp(200, FALSE, FALSE)
    /\ checker.requests[2].out = AiResp(302, FALSE, FALSE)
    /\ checker.requests[3].out = AiResp(404, FALSE, FALSE)
    /\ checker.requests[4].out = AiRaised("Timeout")
    /\ prober.proxy_info.ai_models[1].status = "available"
    /\ prober.proxy_info.ai_models[2].status = "uncertain"
    /\ prober.proxy_info.ai_models[3].status = "http_404"

\* C27: the checker requests the four services once each, in the order
\* of the list, whatever the earlier requests did; when it returns, all
\* four have been requested and none is left with status unknown.
C27_EveryServiceChecked ==
    /\ \A i \in DOMAIN checker.requests :
          /\ i <= 4
          /\ checker.requests[i].name = << "chatgpt", "claude", "gemini", "copilot" >>[i]
    /\ (checker # NoChecker /\ prober_pc.at \in {"L165", "L302", "done"})
       => /\ Len(checker.requests) = 4
          /\ \A i \in 1..4 : checker.ai_availability[i].status # "unknown"
    /\ prober.proxy_info.ai_models # NoReport
       => \A i \in 1..4 : prober.proxy_info.ai_models[i].status # "unknown"

\* the checker has returned after its first request timed out, its second
\* raised another exception and its third was answered 403
C27_Witness ==
    /\ prober_pc.at = "done"
    /\ Len(checker.requests) = 4
    /\ checker.requests[1].out = AiRaised("Timeout")
    /\ checker.requests[2].out = AiRaised("Exception")
    /\ checker.requests[3].out.status = 403
    /\ prober.proxy_info.ai_models[4].status = "available"

\* C30: in every endpoint report, in the making or returned, a service is
\* available exactly when its status is available, and it has a latency
\* only if it is available.
C30_AvailabilityConsistent ==
    \A report \in {checker.ai_availability, prober.proxy_info.ai_models} :
        \A i \in DOMAIN report :
            /\ report[i].available <=> report[i].status = "available"
            /\ report[i].response_time # NoNumber => report[i].available

\* a report was returned with one service available, with its latency,
\* and one blocked by a region-block phrase in a 200 response, with none
C30_Witness ==
    /\ prober_pc.at = "done"
    /\ prober.proxy_info.ai_models # NoReport
    /\ prober.proxy_info.ai_models[1].available
    /\ prober.proxy_info.ai_models[1].response_time = Ms(400)
    /\ checker.requests[2].out = AiResp(200, TRUE, TRUE)
    /\ prober.proxy_info.ai_models[2].status = "blocked"
    /\ prober.proxy_info.ai_models[2].response_time = NoNumber

\* C28: a task whose worker has started (it is about to run line 409)
\* eventually is terminal: not running, with its end time recorded.
C28_WorkerTerminates ==
    \A task_id \in TaskIds :
        (task_id \in Issued /\ pc[task_id] = "L409")
        ~> ( /\ task_id \in Issued
             /\ Terminal(task[task_id])
             /\ task[task_id].end_time # NoNumber )

\* a task on two hosts is terminal with its end time recorded, one probe
\* having raised and the other found the port closed
C28_Witness ==
    \E task_id \in Issued :
        /\ Terminal(task[task_id])
        /\ task[task_id].end_time # NoNumber
        /\ Len(futures[task_id]) = 2
        /\ futures[task_id][1].connect = "raised"
        /\ futures[task_id][2].connect = "closed"

(***************************************************************************)
(* C29: in scanner_web at most one scan thread is active at any time: of   *)
(* the threads start_scan has launched, at most one is between its first   *)
(* write of the shared status (line 56) and its last (line 86).            *)
(***************************************************************************)
ActiveWebThreads ==
    { w \in 1..Len(web_threads) : web_threads[w].pc \notin {"L56", "done"} }

C29_SingleWorker == Cardinality(ActiveWebThreads) <= 1

\* C29, the part the handler does keep: a start request that finds the flag
\* set starts no thread and leaves the status as it was
C29_RejectedWhileFlagSet ==
    [][ (response'.op = "web_start_scan" /\ response' # response
         /\ scan_status.is_scanning)
        => /\ response'.status = "error"
           /\ UNCHANGED << scan_status, web_threads >> ]_vars

=============================================================================
